---- MODULE Spec2Model ----
(***************************************************************************)
(* A state-machine model of check_42.py: the relink verifier               *)
(* (check_relink), the forbidden-call detector (check_forbidden_functions  *)
(* with _preprocess and the FuncCallVisitor) and the part of main that     *)
(* drives them and turns the collected violations into an exit status.     *)
(*                                                                         *)
(* Text is modelled as a sequence of code points, so that strip(),         *)
(* lower(), replace() and sorted() are computed and not assumed.           *)
(* A Python optional string is a TLA+ string, None being the value None.   *)
(***************************************************************************)
EXTENDS Integers, Sequences, FiniteSets, TLC

VARIABLES
    entry,            \* which function of the module the run calls
    argv,             \* sys.argv[1:]
    folder_isdir,     \* environment: os.path.isdir(folder_path)
    registry,         \* the dict PROJECTS the module is loaded with
    rp_pc,            \* position of the call of resolve_project_name
    raw_name,         \* resolve_project_name: raw_name
    normalized,       \* _normalize_project_name(raw_name)
    resolved,         \* what resolve_project_name returned
    renormalized,     \* _normalize_project_name of the normalized name
    pc,               \* position of main
    errors,           \* main: errors
    warnings,         \* main: warnings
    exit_status,      \* process exit status of main, or "running"
    project,          \* main: canonical_name (a key of PROJECTS)
    source_files,     \* main: source_files
    ff_pc,            \* position of check_forbidden_functions
    pycparser_installed, \* environment: the import at line 348 succeeds
    c_files,          \* check_forbidden_functions: c_files
    allowed_functions,\* check_forbidden_functions: allowed_functions
    ff_i,             \* index of the file the for loop is at
    disk,             \* what the current file holds on disk when it is read
    pp_mode,          \* how _preprocess produced the text: "gcc" or "raw"
    source,           \* check_forbidden_functions: source
    ast,              \* check_forbidden_functions: ast
    called_functions, \* visitor.called_functions of the file last visited
    ff_errors,        \* check_forbidden_functions: errors
    fs,               \* environment: what is held fixed of each .c file
    calls,            \* calls of check_forbidden_functions made so far
    first_errors,     \* what the first of two calls returned
    stdout,           \* lines printed so far
    cr_pc,            \* position of check_relink
    make_target,      \* check_relink: make_target
    make_installed,   \* environment: the make executable can be spawned
    artifact,         \* the file target_path: [exists, mtime]
    now,              \* the filesystem's clock, in timestamp granules
    proc,             \* number of make child processes running
    result,           \* check_relink: result of the rebuild (returncode, stderr)
    first_rc,         \* exit code of the initial make (the code drops it)
    mtime_before,     \* check_relink: mtime_before
    mtime_after,      \* check_relink: mtime_after
    cr_ret,           \* value check_relink returned
    events,           \* what check_relink did so far, in order
    build_failed      \* some make of the run exited with a non-zero code

vars == << entry, argv, folder_isdir, registry,
           rp_pc, raw_name, normalized, resolved, renormalized, pc, errors, warnings, exit_status, project, source_files,
           ff_pc, pycparser_installed, c_files, allowed_functions, ff_i, disk,
           pp_mode, source, ast, called_functions, ff_errors, fs, calls, first_errors, stdout,
           cr_pc, make_target, make_installed, artifact, now, proc, result,
           first_rc, mtime_before, mtime_after, cr_ret, events,
           build_failed >>

mainVars == << pc, errors, warnings, exit_status, project, source_files >>
pinVars == << fs, calls, first_errors >>
ffVars == << ff_pc, pycparser_installed, c_files, allowed_functions, ff_i, disk,
             pp_mode, source, ast, called_functions, ff_errors, pinVars >>
crVars == << cr_pc, make_installed, make_target, artifact, now, proc, result,
             first_rc, mtime_before, mtime_after, cr_ret, events, build_failed >>
envVars == << entry, argv, folder_isdir, registry >>
rpVars == << rp_pc, raw_name, normalized, resolved, renormalized >>

-----------------------------------------------------------------------------
(* Bounds of the model.                                                    *)

\* Longest of the raw project names made of every string over NameAlphabet.
MaxNameLen == 2
\* Longest c_files list a direct call of check_forbidden_functions gets.
MaxFiles == 2
\* Latest clock reading at which a run starts.
MaxStart == 1

-----------------------------------------------------------------------------
(* Text.                                                                   *)

\* None, which is no string: a sequence no text equals.
None == << -1 >>
s_push_swap == << 112, 117, 115, 104, 95, 115, 119, 97, 112 >>

\* A path of the project folder: .c and .h files are [stem, ext]; NoPath
\* stands where a message names no file.
Stems == << "a", "b", "c", "d" >>
CPath(i) == [stem |-> Stems[i], ext |-> ".c"]
HPath(i) == [stem |-> Stems[i], ext |-> ".h"]
OtherPath(name) == [stem |-> name, ext |-> ""]
NoPath == OtherPath("")

\* str.strip(): the white space Python strips (space, \t, \n, \v, \f, \r).
IsSpace(c) == c \in {32, 9, 10, 11, 12, 13}

RECURSIVE LStrip(_)
LStrip(s) ==
    IF s # << >> /\ IsSpace(Head(s)) THEN LStrip(Tail(s)) ELSE s

RECURSIVE RStrip(_)
RStrip(s) ==
    IF s # << >> /\ IsSpace(s[Len(s)]) THEN RStrip(SubSeq(s, 1, Len(s) - 1)) ELSE s

Strip(s) == RStrip(LStrip(s))

\* The order of sorted() on str: code point by code point, a prefix first.
RECURSIVE LexLess(_, _)
LexLess(a, b) ==
    IF b = << >> THEN FALSE
    ELSE IF a = << >> THEN TRUE
    ELSE IF Head(a) # Head(b) THEN Head(a) < Head(b)
    ELSE LexLess(Tail(a), Tail(b))

RECURSIVE SortedReversed(_)
SortedReversed(S) ==
    IF S = {} THEN << >>
    ELSE LET m == CHOOSE x \in S : \A y \in S \ {x} : LexLess(y, x)
         IN  << m >> \o SortedReversed(S \ {m})

\* sorted(S) for a set of str.
RECURSIVE Sorted(_)
Sorted(S) ==
    IF S = {} THEN << >>
    ELSE LET m == CHOOSE x \in S : \A y \in S \ {x} : LexLess(x, y)
         IN  << m >> \o Sorted(S \ {m})

\* A violation, the string the code formats: kind is the fixed text, arg the
\* value interpolated first, file the path interpolated last.
Violation(kind, arg, file) == [kind |-> kind, arg |-> arg, file |-> file]

-----------------------------------------------------------------------------
(* check_relink.                                                           *)

\* Outputs make may leave on stderr: "" and " E\n".
Stderrs == { << >>, << 32, 69, 10 >> }

Absent == [exists |-> FALSE, mtime |-> 0]
Present(t) == [exists |-> TRUE, mtime |-> t]

\* What a run of make may leave of the artifact when the clock reads t:
\* untouched, (re)written with timestamp t, or removed.
MakeLeaves(art, t) == { art, Present(t), Absent }

\* The values make_target takes in a direct call.
MakeTargets == { None, << >>, s_push_swap }

\* An entry of events: what was done, and the clock reading it was done at.
Event(ev) == [ev |-> ev, at |-> now]

PathExistsAlways(art) == TRUE
\* os.path.exists(target_path), line 424, 427 and 439
PathExists(art) == art.exists

FalsyNoneOnly(t) == t = None
\* `if not make_target`, line 418
Falsy(t) == t = None \/ t = << >>

CRReturn(v) ==
    /\ cr_pc' = "returned"
    /\ cr_ret' = v

\* line 418-419
CR_CheckTarget ==
    /\ cr_pc = "l418"
    /\ IF Falsy(make_target)
         THEN CRReturn(<< >>)
         ELSE cr_pc' = "l424" /\ UNCHANGED cr_ret
    /\ UNCHANGED << build_failed, make_installed, make_target, artifact, now, proc, result, first_rc,
                    mtime_before, mtime_after, events >>
    /\ UNCHANGED << mainVars, ffVars, envVars, rpVars, stdout >>

\* line 424-425: os.path.exists(target_path), and the [INFO] line
CR_CheckExists0 ==
    /\ cr_pc = "l424"
    /\ events' = Append(events, Event(IF artifact.exists THEN "present" ELSE "absent"))
    /\ IF ~PathExists(artifact)
         THEN /\ cr_pc' = "l426"
              /\ stdout' = Append(stdout, Violation("[INFO] not found", make_target, NoPath))
         ELSE /\ cr_pc' = "l430"
              /\ UNCHANGED stdout
    /\ UNCHANGED << build_failed, make_installed, make_target, artifact, now, proc, result, first_rc,
                    mtime_before, mtime_after, cr_ret >>
    /\ UNCHANGED << mainVars, ffVars, envVars, rpVars >>

\* subprocess.run(["make", ...]) up to the child being spawned: a missing
\* executable raises FileNotFoundError, which check_relink does not catch.
SpawnMake(ev, waitpc) ==
    IF make_installed
      THEN /\ proc' = proc + 1
           /\ cr_pc' = waitpc
           /\ events' = Append(events, Event(ev))
      ELSE /\ cr_pc' = "raised"
           /\ events' = Append(events, Event("FileNotFoundError"))
           /\ UNCHANGED proc

\* line 426, the call
CR_InitialMake ==
    /\ cr_pc = "l426"
    /\ SpawnMake("make1", "l426w")
    /\ UNCHANGED << build_failed, make_installed, make_target, artifact, now, result, first_rc,
                    mtime_before, mtime_after, cr_ret >>
    /\ UNCHANGED << mainVars, ffVars, envVars, rpVars, stdout >>

\* line 426, make exits: its result is not bound to anything
CR_InitialMakeExit ==
    /\ cr_pc = "l426w"
    /\ \E rc \in {0, 2} :
         /\ first_rc' = rc
         /\ build_failed' = (build_failed \/ rc # 0)
         /\ \E a \in MakeLeaves(artifact, now) : artifact' = a
    /\ UNCHANGED now
    /\ proc' = proc - 1
    /\ cr_pc' = "l427"
    /\ events' = Append(events, Event("exit1"))
    /\ UNCHANGED << make_installed, make_target, result, mtime_before, mtime_after, cr_ret >>
    /\ UNCHANGED << mainVars, ffVars, envVars, rpVars, stdout >>

NotProducedSilently(target) == << >>
\* line 428: [f"make did not produce '{make_target}' (build failure)."]
NotProduced(target) == << Violation("make did not produce", target, NoPath) >>

\* line 427-428
CR_CheckExists1 ==
    /\ cr_pc = "l427"
    /\ events' = Append(events, Event(IF artifact.exists THEN "present" ELSE "absent"))
    /\ IF ~PathExists(artifact)
         THEN CRReturn(NotProduced(make_target))
         ELSE cr_pc' = "l430" /\ UNCHANGED cr_ret
    /\ UNCHANGED << build_failed, make_installed, make_target, artifact, now, proc, result, first_rc,
                    mtime_before, mtime_after >>
    /\ UNCHANGED << mainVars, ffVars, envVars, rpVars, stdout >>

\* line 430
CR_SampleBefore ==
    /\ cr_pc = "l430"
    /\ mtime_before' = artifact.mtime
    /\ events' = Append(events, Event("T0"))
    /\ cr_pc' = "l431"
    /\ UNCHANGED << build_failed, make_installed, make_target, artifact, now, proc, result, first_rc,
                    mtime_after, cr_ret >>
    /\ UNCHANGED << mainVars, ffVars, envVars, rpVars, stdout >>

\* time.sleep(1.1) with a timestamp granule of 1 s: one or two granules pass.
SleepNone == {0}
SleepTicks == {1, 2}

\* line 431
CR_Sleep ==
    /\ cr_pc = "l431"
    /\ \E d \in SleepTicks : now' = now + d
    /\ events' = Append(events, Event("sleep"))
    /\ cr_pc' = "l433"
    /\ UNCHANGED << build_failed, make_installed, make_target, artifact, proc, result, first_rc,
                    mtime_before, mtime_after, cr_ret >>
    /\ UNCHANGED << mainVars, ffVars, envVars, rpVars, stdout >>

\* line 433, the call
CR_Rebuild ==
    /\ cr_pc = "l433"
    /\ SpawnMake("make2", "l433w")
    /\ UNCHANGED << build_failed, make_installed, make_target, artifact, now, result, first_rc,
                    mtime_before, mtime_after, cr_ret >>
    /\ UNCHANGED << mainVars, ffVars, envVars, rpVars, stdout >>

\* line 433-435, make exits: result = CompletedProcess(returncode, stderr)
CR_RebuildExit ==
    /\ cr_pc = "l433w"
    /\ \E rc \in {0, 2}, err \in Stderrs :
         /\ result' = [returncode |-> rc, stderr |-> err]
         /\ build_failed' = (build_failed \/ rc # 0)
         /\ \E a \in MakeLeaves(artifact, now) : artifact' = a
    /\ UNCHANGED now
    /\ proc' = proc - 1
    /\ cr_pc' = "l436"
    /\ events' = Append(events, Event("exit2"))
    /\ UNCHANGED << make_installed, make_target, first_rc, mtime_before, mtime_after, cr_ret >>
    /\ UNCHANGED << mainVars, ffVars, envVars, rpVars, stdout >>

\* line 436: result.returncode != 0
MakeFailed(res) == res.returncode # 0

MakeFailedBare(res) == << Violation("make failed:", << >>, NoPath) >>
\* line 437: [f"make failed:\n{result.stderr.strip()}"]
MakeFailedMessage(res) == << Violation("make failed:", Strip(res.stderr), NoPath) >>

\* line 436-437
CR_CheckReturncode ==
    /\ cr_pc = "l436"
    /\ IF MakeFailed(result)
         THEN CRReturn(MakeFailedMessage(result))
         ELSE cr_pc' = "l439" /\ UNCHANGED cr_ret
    /\ UNCHANGED << build_failed, make_installed, make_target, artifact, now, proc, result, first_rc,
                    mtime_before, mtime_after, events >>
    /\ UNCHANGED << mainVars, ffVars, envVars, rpVars, stdout >>

\* line 439-440
CR_CheckExists2 ==
    /\ cr_pc = "l439"
    /\ events' = Append(events, Event(IF artifact.exists THEN "present" ELSE "absent"))
    /\ IF ~PathExists(artifact)
         THEN CRReturn(<< Violation("disappeared after rebuild", make_target, NoPath) >>)
         ELSE cr_pc' = "l442" /\ UNCHANGED cr_ret
    /\ UNCHANGED << build_failed, make_installed, make_target, artifact, now, proc, result, first_rc,
                    mtime_before, mtime_after >>
    /\ UNCHANGED << mainVars, ffVars, envVars, rpVars, stdout >>

\* line 442
CR_SampleAfter ==
    /\ cr_pc = "l442"
    /\ mtime_after' = artifact.mtime
    /\ events' = Append(events, Event("T1"))
    /\ cr_pc' = "l443"
    /\ UNCHANGED << build_failed, make_installed, make_target, artifact, now, proc, result, first_rc,
                    mtime_before, cr_ret >>
    /\ UNCHANGED << mainVars, ffVars, envVars, rpVars, stdout >>

RelinkVerdictInverted(before, after) ==
    IF after = before
      THEN << Violation("Relink detected", make_target, NoPath) >>
      ELSE << >>

\* line 443-446
RelinkVerdict(before, after) ==
    IF after # before
      THEN << Violation("Relink detected", make_target, NoPath) >>
      ELSE << >>

\* line 443-446
CR_Compare ==
    /\ cr_pc = "l443"
    /\ CRReturn(RelinkVerdict(mtime_before, mtime_after))
    /\ UNCHANGED << build_failed, make_installed, make_target, artifact, now, proc, result, first_rc,
                    mtime_before, mtime_after, events >>
    /\ UNCHANGED << mainVars, ffVars, envVars, rpVars, stdout >>

CheckRelink ==
    \/ CR_CheckTarget
    \/ CR_CheckExists0
    \/ CR_InitialMake
    \/ CR_InitialMakeExit
    \/ CR_CheckExists1
    \/ CR_SampleBefore
    \/ CR_Sleep
    \/ CR_Rebuild
    \/ CR_RebuildExit
    \/ CR_CheckReturncode
    \/ CR_CheckExists2
    \/ CR_SampleAfter
    \/ CR_Compare

-----------------------------------------------------------------------------
(* Source units and syntax trees.                                          *)

n_read == << 114, 101, 97, 100 >>
n_readline == << 114, 101, 97, 100, 108, 105, 110, 101 >>
n_malloc == << 109, 97, 108, 108, 111, 99 >>
n_free == << 102, 114, 101, 101 >>
n_write == << 119, 114, 105, 116, 101 >>
n_exit == << 101, 120, 105, 116 >>

\* The names that occur in the source units of the model: one is a prefix
\* of the other, and the projects of PROJECTS allow one, both or neither.
Names == { n_read, n_readline }

\* Nodes of pycparser's c_ast, every one [kind, name, children]. The children
\* of a FuncCall are its callee (node.name) and then its arguments (node.args).
ID(n) == [kind |-> "ID", name |-> n, children |-> << >>]
Constant(n) == [kind |-> "Constant", name |-> n, children |-> << >>]
FuncCall(callee, args) ==
    [kind |-> "FuncCall", name |-> << >>, children |-> << callee >> \o args]
UnaryOp(e) == [kind |-> "UnaryOp", name |-> << >>, children |-> << e >>]
\* s.f: the children of a StructRef are the object (name) and the field, an ID.
StructRef(obj, field) == [kind |-> "StructRef", name |-> << >>, children |-> << obj, field >>]
FileAST(stmts) == [kind |-> "FileAST", name |-> << >>, children |-> stmts]
ParseError == [kind |-> "ParseError", name |-> << >>, children |-> << >>]

\* f(), f("g"), f(g), (*f)(), f.g(), f(g()), f()() and the expression "g".
Exprs ==
    { FuncCall(ID(f), << >>) : f \in Names }
    \cup { FuncCall(ID(f), << Constant(g) >>) : f \in Names, g \in Names }
    \cup { FuncCall(ID(f), << ID(g) >>) : f \in Names, g \in Names }
    \cup { FuncCall(UnaryOp(ID(f)), << >>) : f \in Names }
    \cup { FuncCall(StructRef(ID(f), ID(g)), << >>) : f \in Names, g \in Names }
    \cup { FuncCall(ID(f), << FuncCall(ID(g), << >>) >>) : f \in Names, g \in Names }
    \cup { FuncCall(FuncCall(ID(f), << >>), << >>) : f \in Names }
    \cup { Constant(g) : g \in Names }

\* The statement lists of a source unit: none, one expression, or two plain
\* calls (the same name twice, or two names in either order).
StmtLists ==
    { << >> }
    \cup { << e >> : e \in Exprs }
    \cup { << FuncCall(ID(f), << >>), FuncCall(ID(g), << >>) >> : f \in Names, g \in Names }

NoComment == << >>

\* What a .c file may hold on disk: its statements, the name a comment of it
\* mentions (or none), whether its C is malformed, whether it can be opened.
Contents ==
    [stmts : StmtLists, comment : {NoComment, n_readline},
     malformed : BOOLEAN, readable : {TRUE}]
    \cup [stmts : {<< >>}, comment : {NoComment}, malformed : {FALSE}, readable : {FALSE}]

\* The files of a folder that main is run on: a run of main is checked on
\* empty files, files of one plain call, and a file that cannot be opened.
MainContents ==
    { c \in Contents : /\ c.comment = NoComment /\ ~c.malformed
                        /\ c.stmts \in {<< >>} \cup { << FuncCall(ID(f), << >>) >> : f \in Names } }

ContentsOf(e) == IF e = "main" THEN MainContents ELSE Contents

\* How the gcc -E child may end: exit 0, exit non-zero, TimeoutExpired after
\* 30 s, FileNotFoundError. It cannot exit 0 on a file it cannot open.
GccOutcomes(content) ==
    IF content.readable THEN {"ok", "nonzero", "timeout", "missing"}
    ELSE {"nonzero", "timeout", "missing"}

\* The text gcc -E writes: the unit with its comments removed.
Preprocessed(content) == [content EXCEPT !.comment = NoComment]

\* line 323-337: the text _preprocess returns, and whether it is gcc's
\* output or the raw text.
PreprocessMode(gcc) == IF gcc = "ok" THEN "gcc" ELSE "raw"

\* line 336: open() raises OSError when the fallback cannot open the file
PreprocessRaises(content, gcc) == gcc # "ok" /\ ~content.readable

Preprocess(content, gcc) ==
    IF gcc = "ok" THEN Preprocessed(content) ELSE content

\* parser.parse(source): pycparser has no rule for comments and raises on
\* them; a grammar engine that takes them as trivia drops them. Malformed C
\* raises.
ParseResults(text) ==
    IF text.malformed THEN { ParseError }
    ELSE IF text.comment # NoComment THEN { ParseError, FileAST(text.stmts) }
    ELSE { FileAST(text.stmts) }

\* Values of the locals of the two detectors when no call of them is active.
EmptyUnit == [stmts |-> << >>, comment |-> NoComment, malformed |-> FALSE, readable |-> TRUE]

\* The environment of a file: free (the file may hold anything each time it
\* is read, gcc and the parser may end in any way), or held fixed: the file
\* holds `content`, gcc ends as `gcc` and the parser gives `tree` every time.
Free == [content |-> EmptyUnit, gcc |-> "free", tree |-> FileAST(<< >>)]
IsFixed(p) == fs[p].gcc # "free"

\* The files whose environment is held fixed hold: one call; two calls, the
\* later name first; malformed C; a call under a comment.
FixedContents ==
    { [stmts |-> << FuncCall(ID(n_read), << >>) >>,
       comment |-> NoComment, malformed |-> FALSE, readable |-> TRUE],
      [stmts |-> << FuncCall(ID(n_readline), << >>), FuncCall(ID(n_read), << >>) >>,
       comment |-> NoComment, malformed |-> FALSE, readable |-> TRUE],
      [stmts |-> << >>, comment |-> NoComment, malformed |-> TRUE, readable |-> TRUE],
      [stmts |-> << FuncCall(ID(n_read), << >>) >>,
       comment |-> n_readline, malformed |-> FALSE, readable |-> TRUE] }

FixedEnvironments ==
    UNION { { [content |-> c, gcc |-> g, tree |-> t] : t \in ParseResults(Preprocess(c, g)) } :
              c \in FixedContents, g \in {"ok", "nonzero"} }

\* What the file p may hold when it is read, how gcc may end on it, and what
\* the parser may give for its text.
ContentsAt(p) == IF IsFixed(p) THEN { fs[p].content } ELSE ContentsOf(entry)
GccOutcomesAt(p, content) == IF IsFixed(p) THEN { fs[p].gcc } ELSE GccOutcomes(content)
ParseResultsAt(p, text) == IF IsFixed(p) THEN { fs[p].tree } ELSE ParseResults(text)

VisitFuncCallThroughPointer(node) ==
    IF node.children[1].kind = "ID" THEN { node.children[1].name }
    ELSE IF node.children[1].kind = "UnaryOp" /\ node.children[1].children[1].kind = "ID"
      THEN { node.children[1].children[1].name }
    ELSE { }

\* line 315-317: visit_FuncCall, before it goes on to the children
VisitFuncCall(node) ==
    IF node.children[1].kind = "ID" THEN { node.children[1].name } ELSE { }

RECURSIVE VisitAnyName(_)
VisitAnyName(node) ==
    (IF node.kind \in {"ID", "Constant"} THEN { node.name } ELSE { })
    \cup UNION { VisitAnyName(node.children[i]) : i \in DOMAIN node.children }

\* line 311-318 with NodeVisitor.visit and generic_visit: called_functions
\* after visitor.visit(node)
RECURSIVE Visit(_)
Visit(node) ==
    (IF node.kind = "FuncCall" THEN VisitFuncCall(node) ELSE { })
    \cup UNION { Visit(node.children[i]) : i \in DOMAIN node.children }

\* set(allowed_functions)
SetOf(seq) == { seq[i] : i \in DOMAIN seq }

\* line 368
Forbidden(called, allowed) == called \ SetOf(allowed)

RECURSIVE MessagesFor(_, _)
MessagesFor(names, filepath) ==
    IF names = << >> THEN << >>
    ELSE << Violation("Forbidden function", Head(names), filepath) >>
         \o MessagesFor(Tail(names), filepath)

FileErrorsUnsorted(tree, allowed, filepath) ==
    MessagesFor(SortedReversed(Forbidden(Visit(tree), allowed)), filepath)

SharedCalledFunctions == { ff_errors[i].arg : i \in DOMAIN ff_errors }
\* line 365 and 313: called_functions of the visitor made for the file
NewCalledFunctions == { }

\* line 365-366: visitor.called_functions after visitor.visit(ast)
CalledFunctions(tree) == NewCalledFunctions \cup Visit(tree)

\* line 365-370: what one parsed file appends to errors
FileErrors(tree, allowed, filepath) ==
    MessagesFor(Sorted(Forbidden(CalledFunctions(tree), allowed)), filepath)

-----------------------------------------------------------------------------
(* check_forbidden_functions.                                              *)

FFReturn(v) ==
    /\ ff_pc' = "returned"
    /\ ff_errors' = v

\* Whether pycparser can be imported: as the environment has it, and in a
\* later call of the same run as in the first.
ImportOutcomes == IF calls > 1 THEN { pycparser_installed } ELSE BOOLEAN

ImportFailedNever(installed) == FALSE
\* line 349: the import of line 348 raised ImportError
ImportFailed(installed) == ~installed

\* line 347-351
FF_Import ==
    /\ ff_pc = "l347"
    /\ \E installed \in ImportOutcomes :
         /\ pycparser_installed' = installed
         /\ IF ImportFailed(installed)
              THEN /\ stdout' = Append(stdout, Violation("[WARNING] pycparser not installed", << >>, NoPath))
                   /\ FFReturn(<< >>)
              ELSE /\ ff_pc' = "l353"
                   /\ UNCHANGED << ff_errors, stdout >>
    /\ UNCHANGED << c_files, allowed_functions, ff_i, disk, pp_mode, source, ast, called_functions >>
    /\ UNCHANGED << mainVars, crVars, envVars, rpVars, pinVars >>

StaleErrors == ff_errors
\* line 355: errors = []
EmptyErrors == << >>

\* line 353-355
FF_Setup ==
    /\ ff_pc = "l353"
    /\ ff_errors' = EmptyErrors
    /\ ff_i' = 0
    /\ ff_pc' = "l357"
    /\ UNCHANGED << pycparser_installed, c_files, allowed_functions, disk, pp_mode, source, ast, called_functions, stdout >>
    /\ UNCHANGED << mainVars, crVars, envVars, rpVars, pinVars >>

\* line 357: the for loop takes the next file, or ends (line 372)
FF_For ==
    /\ ff_pc = "l357"
    /\ IF ff_i < Len(c_files)
         THEN /\ ff_i' = ff_i + 1
              /\ ff_pc' = "l358"
              /\ UNCHANGED ff_errors
         ELSE /\ FFReturn(ff_errors)
              /\ UNCHANGED ff_i
    /\ UNCHANGED << pycparser_installed, c_files, allowed_functions, disk, pp_mode, source, ast, called_functions, stdout >>
    /\ UNCHANGED << mainVars, crVars, envVars, rpVars, pinVars >>

\* line 326-337, the gcc child having ended as `gcc`: the file holds what it
\* holds when it is read, and _preprocess returns gcc's output, returns the
\* raw text, or raises out of the fallback's open()
PreprocessEnds(content, gcc) ==
    /\ disk' = content
    /\ pp_mode' = PreprocessMode(gcc)
    /\ source' = Preprocess(content, gcc)
    /\ ff_pc' = IF PreprocessRaises(content, gcc) THEN "raised" ELSE "l360"

\* line 358 and 326-331: source = _preprocess(filepath) up to the gcc child
\* being spawned; with no gcc executable subprocess.run raises
\* FileNotFoundError at once, which line 334 catches
FF_Preprocess ==
    /\ ff_pc = "l358"
    /\ \/ /\ ff_pc' = "l326w"
          /\ UNCHANGED << disk, pp_mode, source >>
          /\ \E content \in ContentsAt(c_files[ff_i]) :
               GccOutcomesAt(c_files[ff_i], content) \ {"missing"} # {}
       \/ \E content \in ContentsAt(c_files[ff_i]) :
            /\ "missing" \in GccOutcomesAt(c_files[ff_i], content)
            /\ PreprocessEnds(content, "missing")
    /\ UNCHANGED << pycparser_installed, c_files, allowed_functions, ff_i, ast, called_functions, ff_errors, stdout >>
    /\ UNCHANGED << mainVars, crVars, envVars, rpVars, pinVars >>

\* line 326-333, the gcc child exits within the 30 s of line 330
FF_GccExit ==
    /\ ff_pc = "l326w"
    /\ \E content \in ContentsAt(c_files[ff_i]) :
         \E gcc \in GccOutcomesAt(c_files[ff_i], content) \cap {"ok", "nonzero"} :
           PreprocessEnds(content, gcc)
    /\ UNCHANGED << pycparser_installed, c_files, allowed_functions, ff_i, ast, called_functions, ff_errors, stdout >>
    /\ UNCHANGED << mainVars, crVars, envVars, rpVars, pinVars >>

\* line 330 and 334-335: the 30 s are over; subprocess.run kills the child
\* and raises TimeoutExpired, which line 334 catches
FF_GccTimeout ==
    /\ ff_pc = "l326w"
    /\ \E content \in ContentsAt(c_files[ff_i]) :
         /\ "timeout" \in GccOutcomesAt(c_files[ff_i], content)
         /\ PreprocessEnds(content, "timeout")
    /\ UNCHANGED << pycparser_installed, c_files, allowed_functions, ff_i, ast, called_functions, ff_errors, stdout >>
    /\ UNCHANGED << mainVars, crVars, envVars, rpVars, pinVars >>

ParseFailedNever(tree) == FALSE
\* line 361: parser.parse raised
ParseFailed(tree) == tree = ParseError

\* line 359-363
FF_Parse ==
    /\ ff_pc = "l360"
    /\ \E tree \in ParseResultsAt(c_files[ff_i], source) :
         /\ ast' = tree
         /\ IF ParseFailed(tree)
              THEN /\ stdout' = Append(stdout, Violation("[WARNING] Could not parse", << >>, c_files[ff_i]))
                   /\ ff_pc' = "l357"
              ELSE /\ ff_pc' = "l365"
                   /\ UNCHANGED stdout
    /\ UNCHANGED << pycparser_installed, c_files, allowed_functions, ff_i, disk, pp_mode, source,
                    called_functions, ff_errors >>
    /\ UNCHANGED << mainVars, crVars, envVars, rpVars, pinVars >>

\* line 365-370
FF_Evaluate ==
    /\ ff_pc = "l365"
    /\ called_functions' = CalledFunctions(ast)
    /\ ff_errors' = ff_errors \o FileErrors(ast, allowed_functions, c_files[ff_i])
    /\ ff_pc' = "l357"
    /\ UNCHANGED << pycparser_installed, c_files, allowed_functions, ff_i, disk, pp_mode, source, ast, stdout >>
    /\ UNCHANGED << mainVars, crVars, envVars, rpVars, pinVars >>

CheckForbiddenFunctions ==
    \/ FF_Import
    \/ FF_Setup
    \/ FF_For
    \/ FF_Preprocess
    \/ FF_GccExit
    \/ FF_GccTimeout
    \/ FF_Parse
    \/ FF_Evaluate

-----------------------------------------------------------------------------
(* The registry and project names.                                         *)

k_push_swap == s_push_swap
k_born2beroot == << 98, 111, 114, 110, 50, 98, 101, 114, 111, 111, 116 >>
k_cpp00 == << 99, 112, 112, 48, 48 >>
k_fract_ol == << 102, 114, 97, 99, 116, 45, 111, 108 >>
s_fractol == << 102, 114, 97, 99, 116, 111, 108 >>

\* Four entries of PROJECTS (line 36-263): one with a make target, one
\* with no C source and a required path, one with nothing required, and the
\* one whose key is not its own normalization.
PROJECTS ==
    (k_push_swap :>
        [allowed_functions |-> << n_malloc, n_free, n_read, n_write, n_exit >>,
         make_target |-> s_push_swap,
         required_paths |-> << OtherPath("Makefile") >>])
    @@ (k_born2beroot :>
        [allowed_functions |-> << >>,
         make_target |-> None,
         required_paths |-> << OtherPath("signature.txt") >>])
    @@ (k_cpp00 :>
        [allowed_functions |-> << >>,
         make_target |-> None,
         required_paths |-> << >>])
    @@ (k_fract_ol :>
        [allowed_functions |->
           << << 109, 97, 108, 108, 111, 99 >>,
              << 102, 114, 101, 101 >>,
              << 112, 101, 114, 114, 111, 114 >>,
              << 115, 116, 114, 101, 114, 114, 111, 114 >>,
              << 101, 120, 105, 116 >>,
              << 111, 112, 101, 110 >>,
              << 99, 108, 111, 115, 101 >>,
              << 109, 108, 120, 95, 105, 110, 105, 116 >>,
              << 109, 108, 120, 95, 110, 101, 119, 95, 119, 105, 110, 100, 111, 119 >>,
              << 109, 108, 120, 95, 99, 108, 101, 97, 114, 95, 119, 105, 110, 100, 111, 119 >>,
              << 109, 108, 120, 95, 100, 101, 115, 116, 114, 111, 121, 95, 119, 105, 110, 100, 111, 119 >>,
              << 109, 108, 120, 95, 100, 101, 115, 116, 114, 111, 121, 95, 100, 105, 115, 112, 108, 97, 121 >>,
              << 109, 108, 120, 95, 108, 111, 111, 112 >>,
              << 109, 108, 120, 95, 108, 111, 111, 112, 95, 101, 110, 100 >>,
              << 109, 108, 120, 95, 108, 111, 111, 112, 95, 104, 111, 111, 107 >>,
              << 109, 108, 120, 95, 107, 101, 121, 95, 104, 111, 111, 107 >>,
              << 109, 108, 120, 95, 109, 111, 117, 115, 101, 95, 104, 111, 111, 107 >>,
              << 109, 108, 120, 95, 101, 120, 112, 111, 115, 101, 95, 104, 111, 111, 107 >>,
              << 109, 108, 120, 95, 104, 111, 111, 107 >>,
              << 109, 108, 120, 95, 110, 101, 119, 95, 105, 109, 97, 103, 101 >>,
              << 109, 108, 120, 95, 112, 117, 116, 95, 105, 109, 97, 103, 101, 95, 116, 111, 95, 119, 105, 110, 100, 111, 119 >>,
              << 109, 108, 120, 95, 100, 101, 115, 116, 114, 111, 121, 95, 105, 109, 97, 103, 101 >>,
              << 109, 108, 120, 95, 103, 101, 116, 95, 100, 97, 116, 97, 95, 97, 100, 100, 114 >>,
              << 109, 108, 120, 95, 103, 101, 116, 95, 99, 111, 108, 111, 114, 95, 118, 97, 108, 117, 101 >>,
              << 109, 108, 120, 95, 112, 105, 120, 101, 108, 95, 112, 117, 116 >>,
              << 99, 111, 115 >>,
              << 115, 105, 110 >>,
              << 116, 97, 110 >> >>,
         make_target |-> s_fractol,
         required_paths |-> << OtherPath("Makefile") >>])

\* The order of the four keys in the dict literal (line 64, 71, 121, 227).
KeyOrder == << k_born2beroot, k_push_swap, k_fract_ol, k_cpp00 >>

\* PROJECTS as an edit of the literal may leave it, the keys being the same:
\* an allow-list with an entry twice, an entry without its make_target.
DuplicateAllowed ==
    [PROJECTS EXCEPT ![k_cpp00] =
        [allowed_functions |-> << n_read, n_read >>,
         make_target |-> None,
         required_paths |-> << >>]]

MissingField ==
    [PROJECTS EXCEPT ![k_cpp00] =
        [allowed_functions |-> << >>, required_paths |-> << >>]]

InvalidRegistries == { DuplicateAllowed, MissingField }

\* cfg.get(field, default)
Get(cfg, field, default) == IF field \in DOMAIN cfg THEN cfg[field] ELSE default

\* str.lower() on ASCII
Lower(c) == IF c >= 65 /\ c <= 90 THEN c + 32 ELSE c

NormalizeCharKeepingCase(c) == IF c \in {45, 32} THEN 95 ELSE c
\* line 272: name.strip().lower().replace("-", "_").replace(" ", "_")
NormalizeChar(c) == IF Lower(c) \in {45, 32} THEN 95 ELSE Lower(c)

NormalizeProjectName(name) ==
    LET t == Strip(name) IN [i \in DOMAIN t |-> NormalizeChar(t[i])]

ResolveOrDefault(raw) ==
    LET hits == { k \in DOMAIN PROJECTS :
                    NormalizeProjectName(k) = NormalizeProjectName(raw) }
    IN  IF hits = {} THEN k_cpp00 ELSE CHOOSE k \in hits : TRUE

\* line 276 and 279-281: the canonical key, or None
ResolveProjectName(raw) ==
    LET hits == { k \in DOMAIN PROJECTS :
                    NormalizeProjectName(k) = NormalizeProjectName(raw) }
    IN  IF hits = {} THEN None ELSE CHOOSE k \in hits : TRUE

\* Project names given on the command line: " Push-Swap ", "born2beroot",
\* "cpp00" and "x".
RawNames ==
    { << 32, 80, 117, 115, 104, 45, 83, 119, 97, 112, 32 >>,
      k_born2beroot, k_cpp00, << 120 >> }

s_folder == << 100 >>

\* Raw names a direct call of resolve_project_name gets: every string of up
\* to MaxNameLen of the characters "A", "a", "-", " ", "_" and tab, and for
\* each key: the key, the key in upper case, with its separators turned into
\* hyphens or spaces, with white space around it, these together, and three
\* names that are no key (a letter more, a letter less, a tab for a
\* separator).
NameAlphabet == { 65, 97, 45, 32, 95, 9 }

RECURSIVE StringsUpTo(_)
StringsUpTo(n) ==
    IF n = 0 THEN { << >> }
    ELSE LET shorter == StringsUpTo(n - 1)
         IN  shorter \cup { Append(t, c) : t \in { x \in shorter : Len(x) = n - 1 },
                                           c \in NameAlphabet }

Upper(t) == [i \in DOMAIN t |-> IF t[i] >= 97 /\ t[i] <= 122 THEN t[i] - 32 ELSE t[i]]
WithSeparator(t, c) == [i \in DOMAIN t |-> IF t[i] \in {45, 95} THEN c ELSE t[i]]
Padded(t) == << 32, 9 >> \o t \o << 32, 10 >>

KeyVariants(k) ==
    { k, Upper(k), WithSeparator(k, 45), WithSeparator(k, 32), WithSeparator(k, 95),
      Padded(k), Padded(Upper(WithSeparator(k, 32))),
      Append(k, 120), Tail(k), WithSeparator(k, 9) }

RawInputs == StringsUpTo(MaxNameLen) \cup UNION { KeyVariants(k) : k \in DOMAIN PROJECTS }

\* "--list-projects" and "--validate-projects"
s_list_projects ==
    << 45, 45, 108, 105, 115, 116, 45, 112, 114, 111, 106, 101, 99, 116, 115 >>
s_validate_projects ==
    << 45, 45, 118, 97, 108, 105, 100, 97, 116, 101, 45, 112, 114, 111, 106, 101, 99, 116, 115 >>

-----------------------------------------------------------------------------
(* main.                                                                   *)

RECURSIVE SelectPaths(_, _)
SelectPaths(files, ext) ==
    IF files = << >> THEN << >>
    ELSE (IF Head(files).ext = ext THEN << Head(files) >> ELSE << >>)
         \o SelectPaths(Tail(files), ext)

\* What find_source_files may return for the folder.
SourceFileLists == { << >>, << CPath(1) >>, << CPath(1), HPath(1) >> }

\* The value of check_relink's result when no call of it is active.
NoResult == [returncode |-> 0, stderr |-> << >>]

Exit(code) ==
    /\ exit_status' = code
    /\ pc' = "exited"

\* line 567-572: what cmd_list_projects prints
ListProjects(reg) ==
    << Violation("Supported 42 Common Core projects:", << >>, NoPath) >>
    \o [i \in 1..Cardinality(DOMAIN reg) |->
          Violation("  ", Sorted(DOMAIN reg)[i], NoPath)]

\* line 586-593: the keys after the first that normalize as an earlier key
RECURSIVE DuplicateKeys(_, _)
DuplicateKeys(keys, seen) ==
    IF keys = << >> THEN << >>
    ELSE (IF NormalizeProjectName(Head(keys)) \in seen
            THEN << Violation("Duplicate normalized key:", Head(keys), NoPath) >>
            ELSE << >>)
         \o DuplicateKeys(Tail(keys), seen \cup { NormalizeProjectName(Head(keys)) })

\* line 597-608: the errors of one entry (the type checks of line 609-613
\* never fail on the entries of the model)
EntryErrors(key, cfg) ==
    (IF "allowed_functions" \notin DOMAIN cfg
       THEN << Violation("is missing 'allowed_functions'.", key, NoPath) >> ELSE << >>)
    \o (IF "make_target" \notin DOMAIN cfg
          THEN << Violation("is missing 'make_target'.", key, NoPath) >> ELSE << >>)
    \o (IF "required_paths" \notin DOMAIN cfg
          THEN << Violation("is missing 'required_paths'.", key, NoPath) >> ELSE << >>)
    \o (LET af == Get(cfg, "allowed_functions", << >>)
        IN  IF Len(af) # Cardinality(SetOf(af))
              THEN << Violation("has duplicate allowed_functions:", key, NoPath) >>
              ELSE << >>)

RECURSIVE EntriesErrors(_, _)
EntriesErrors(keys, reg) ==
    IF keys = << >> THEN << >>
    ELSE EntryErrors(Head(keys), reg[Head(keys)]) \o EntriesErrors(Tail(keys), reg)

\* line 577-613: errors of cmd_validate_projects (no key of the model is empty)
ValidationErrors(reg) == DuplicateKeys(KeyOrder, { }) \o EntriesErrors(KeyOrder, reg)

\* line 615-622: what cmd_validate_projects prints, and its exit status
ValidateProjects(reg) ==
    IF ValidationErrors(reg) # << >>
      THEN [out |-> << Violation("[FAIL] PROJECTS validation failed:", << >>, NoPath) >>
                    \o ValidationErrors(reg),
            status |-> 1]
      ELSE [out |-> << Violation("[OK] PROJECTS validated:", << >>, NoPath) >>,
            status |-> 0]

\* line 632-635: the self-check flags, looked for anywhere in sys.argv
M_SelfCheck ==
    /\ pc = "l632"
    /\ IF s_list_projects \in SetOf(argv)
         THEN /\ stdout' = stdout \o ListProjects(registry)
              /\ Exit(0)
         ELSE IF s_validate_projects \in SetOf(argv)
         THEN /\ stdout' = stdout \o ValidateProjects(registry).out
              /\ Exit(ValidateProjects(registry).status)
         ELSE /\ pc' = "l639"
              /\ UNCHANGED << exit_status, stdout >>
    /\ UNCHANGED << errors, warnings, project, source_files >>
    /\ UNCHANGED << ffVars, crVars, envVars, rpVars >>

\* line 639-657: the checks of the arguments (check_version, called at line
\* 637, is defined outside this file)
M_Args ==
    /\ pc = "l639"
    /\ IF Len(argv) < 2
         THEN /\ stdout' = Append(stdout, Violation("Usage:", << >>, NoPath))
              /\ Exit(1)
              /\ UNCHANGED project
         ELSE IF ~folder_isdir
         THEN /\ stdout' = Append(stdout, Violation("[ERROR] Folder not found:", argv[1], NoPath))
              /\ Exit(1)
              /\ UNCHANGED project
         ELSE IF ResolveProjectName(argv[2]) = None
         THEN /\ stdout' = Append(stdout, Violation("[ERROR] Unknown project", argv[2], NoPath))
              /\ Exit(1)
              /\ UNCHANGED project
         ELSE /\ project' = ResolveProjectName(argv[2])
              /\ pc' = "l659"
              /\ UNCHANGED << exit_status, stdout >>
    /\ UNCHANGED << errors, warnings, source_files >>
    /\ UNCHANGED << ffVars, crVars, envVars, rpVars >>

\* line 659-664
M_Discover ==
    /\ pc = "l659"
    /\ \E files \in SourceFileLists : source_files' = files
    /\ errors' = << >>
    /\ warnings' = << >>
    /\ pc' = "l667"
    /\ UNCHANGED << exit_status, project, stdout >>
    /\ UNCHANGED << ffVars, crVars, envVars, rpVars >>

\* line 458-525: what check_readme returns for a README.md that is missing,
\* cannot be read, has a flaw of structure, or has none
CheckReadme(readme) ==
    CASE readme = "missing" ->
           [errors |-> << Violation("README.md is missing from the project folder", << >>, NoPath) >>,
            warnings |-> << >>]
      [] readme = "unreadable" ->
           [errors |-> << >>,
            warnings |-> << Violation("Cannot read README.md", << >>, NoPath) >>]
      [] readme = "flawed" ->
           [errors |-> << >>,
            warnings |-> << Violation("README.md is missing a section", << >>, NoPath) >>]
      [] OTHER -> [errors |-> << >>, warnings |-> << >>]

\* line 667-669
M_Readme ==
    /\ pc = "l667"
    /\ \E readme \in {"missing", "unreadable", "flawed", "clean"} :
         /\ errors' = errors \o CheckReadme(readme).errors
         /\ warnings' = warnings \o CheckReadme(readme).warnings
    /\ pc' = "l672"
    /\ UNCHANGED << exit_status, project, source_files, stdout >>
    /\ UNCHANGED << ffVars, crVars, envVars, rpVars >>

\* line 533-542, the paths of `existing` being those that exist
RECURSIVE CheckRequiredPaths(_, _)
CheckRequiredPaths(existing, required_paths) ==
    IF required_paths = << >> THEN << >>
    ELSE (IF Head(required_paths) \notin existing
            THEN << Violation("Required path missing:", << >>, Head(required_paths)) >>
            ELSE << >>)
         \o CheckRequiredPaths(existing, Tail(required_paths))

\* line 672
M_RequiredPaths ==
    /\ pc = "l672"
    /\ \E existing \in SUBSET SetOf(Get(registry[project], "required_paths", << >>)) :
         errors' = errors \o CheckRequiredPaths(existing,
                                Get(registry[project], "required_paths", << >>))
    /\ pc' = "l675"
    /\ UNCHANGED << warnings, exit_status, project, source_files, stdout >>
    /\ UNCHANGED << ffVars, crVars, envVars, rpVars >>

\* line 289-300, `found` mapping each file to what reading its first 500
\* characters gives: "header", "none" or "OSError"
RECURSIVE CheckHeaders(_, _)
CheckHeaders(files, found) ==
    IF files = << >> THEN << >>
    ELSE (CASE found[Head(files)] = "none" ->
                 << Violation("Missing 42 header in:", << >>, Head(files)) >>
            [] found[Head(files)] = "OSError" ->
                 << Violation("Cannot read", << >>, Head(files)) >>
            [] OTHER -> << >>)
         \o CheckHeaders(Tail(files), found)

\* line 675
M_Headers ==
    /\ pc = "l675"
    /\ \E found \in [SetOf(source_files) -> {"header", "none", "OSError"}] :
         errors' = errors \o CheckHeaders(source_files, found)
    /\ pc' = "l676"
    /\ UNCHANGED << warnings, exit_status, project, source_files, stdout >>
    /\ UNCHANGED << ffVars, crVars, envVars, rpVars >>

\* line 676, the call
M_CallForbidden ==
    /\ pc = "l676"
    /\ c_files' = SelectPaths(source_files, ".c")
    /\ allowed_functions' = registry[project].allowed_functions
    /\ ff_pc' = "l347"
    /\ calls' = calls + 1
    /\ pc' = "l676w"
    /\ UNCHANGED << pycparser_installed, ff_i, disk, pp_mode, source, ast, called_functions, ff_errors,
                    fs, first_errors >>
    /\ UNCHANGED << errors, warnings, exit_status, project, source_files, stdout >>
    /\ UNCHANGED << crVars, envVars, rpVars >>

\* line 676, errors.extend(...) of what the call returned
M_ForbiddenReturned ==
    /\ pc = "l676w"
    /\ ff_pc = "returned"
    /\ errors' = errors \o ff_errors
    /\ pc' = "l677"
    /\ ff_pc' = "idle"
    /\ c_files' = << >>
    /\ allowed_functions' = << >>
    /\ ff_i' = 0
    /\ disk' = EmptyUnit
    /\ pp_mode' = "none"
    /\ source' = EmptyUnit
    /\ ast' = FileAST(<< >>)
    /\ called_functions' = { }
    /\ ff_errors' = << >>
    /\ UNCHANGED << warnings, exit_status, project, source_files, stdout, pycparser_installed >>
    /\ UNCHANGED << crVars, envVars, rpVars, pinVars >>

\* line 677, the call: the folder's artifact and make are as main finds them
M_CallRelink ==
    /\ pc = "l677"
    /\ make_target' = Get(registry[project], "make_target", None)
    /\ \E installed \in BOOLEAN : make_installed' = installed
    /\ \E a \in {Absent} \cup { Present(t) : t \in 0..now } : artifact' = a
    /\ cr_pc' = "l418"
    /\ pc' = "l677w"
    /\ UNCHANGED << now, proc, result, first_rc, mtime_before, mtime_after, cr_ret,
                    events, build_failed >>
    /\ UNCHANGED << errors, warnings, exit_status, project, source_files, stdout >>
    /\ UNCHANGED << ffVars, envVars, rpVars >>

\* line 677, errors.extend(...) of what the call returned
M_RelinkReturned ==
    /\ pc = "l677w"
    /\ cr_pc = "returned"
    /\ errors' = errors \o cr_ret
    /\ pc' = "l680"
    /\ cr_pc' = "idle"
    /\ make_target' = None
    /\ result' = NoResult
    /\ first_rc' = 0
    /\ mtime_before' = -1
    /\ mtime_after' = -1
    /\ cr_ret' = << >>
    /\ events' = << >>
    /\ UNCHANGED << warnings, exit_status, project, source_files, stdout >>
    /\ UNCHANGED << make_installed, artifact, now, proc, build_failed >>
    /\ UNCHANGED << ffVars, envVars, rpVars >>

\* line 380-400: no files, norminette not installed, or one advisory per
\* Error:/Warning: line of its output
CheckNorminette(files, outcome) ==
    IF files = << >> \/ outcome # "lines" THEN << >>
    ELSE << Violation("[NORMINETTE]", << >>, NoPath) >>

\* line 680
M_Norminette ==
    /\ pc = "l680"
    /\ \E outcome \in {"FileNotFoundError", "silent", "lines"} :
         warnings' = warnings \o CheckNorminette(source_files, outcome)
    /\ pc' = "l683"
    /\ UNCHANGED << errors, exit_status, project, source_files, stdout >>
    /\ UNCHANGED << ffVars, crVars, envVars, rpVars >>

\* line 686-693: the exit status
Verdict(errs) == IF errs # << >> THEN 1 ELSE 0

\* line 683-693
M_Report ==
    /\ pc = "l683"
    /\ stdout' = stdout \o warnings
                 \o (IF errors # << >>
                       THEN << Violation("[FAIL] Compliance check failed:", << >>, NoPath) >> \o errors
                       ELSE << Violation("[OK] All compliance checks passed.", << >>, NoPath) >>)
    /\ Exit(Verdict(errors))
    /\ UNCHANGED << errors, warnings, project, source_files >>
    /\ UNCHANGED << ffVars, crVars, envVars, rpVars >>

\* An exception a detector raised and nothing catches ends main with a
\* traceback and exit status 1, no verdict printed.
M_Uncaught ==
    /\ \/ pc = "l676w" /\ ff_pc = "raised"
       \/ pc = "l677w" /\ cr_pc = "raised"
    /\ stdout' = Append(stdout, Violation("Traceback (most recent call last):", << >>, NoPath))
    /\ exit_status' = 1
    /\ pc' = "traceback"
    /\ UNCHANGED << errors, warnings, project, source_files >>
    /\ UNCHANGED << ffVars, crVars, envVars, rpVars >>

\* line 279-281: resolve_project_name(raw_name)
RP_Resolve ==
    /\ rp_pc = "l281"
    /\ normalized' = NormalizeProjectName(raw_name)
    /\ resolved' = ResolveProjectName(raw_name)
    /\ rp_pc' = "returned"
    /\ UNCHANGED << raw_name, renormalized >>
    /\ UNCHANGED << mainVars, ffVars, crVars, envVars, stdout >>

\* line 270-272: _normalize_project_name of a name that it returned
RP_NormalizeAgain ==
    /\ rp_pc = "returned"
    /\ renormalized' = NormalizeProjectName(normalized)
    /\ rp_pc' = "renormalized"
    /\ UNCHANGED << raw_name, normalized, resolved >>
    /\ UNCHANGED << mainVars, ffVars, crVars, envVars, stdout >>

ResolveProjectNameCall ==
    \/ RP_Resolve
    \/ RP_NormalizeAgain

Main ==
    \/ M_SelfCheck
    \/ M_Args
    \/ M_Discover
    \/ M_Readme
    \/ M_RequiredPaths
    \/ M_Headers
    \/ M_CallForbidden
    \/ M_ForbiddenReturned
    \/ M_CallRelink
    \/ M_RelinkReturned
    \/ M_Norminette
    \/ M_Report
    \/ M_Uncaught

-----------------------------------------------------------------------------
(* The specification.                                                      *)

\* The file lists of a direct call whose files are free: the first n .c paths
\* in order, n up to MaxFiles. Free files differ in their names only; the
\* lists of TwiceFileLists give both orders of two files.
CFileLists == { [i \in 1..n |-> CPath(i)] : n \in 0..MaxFiles }

\* The allow-lists of a direct call.
AllowLists == { << >>, << n_read >>, << n_readline >>, << n_read, n_readline >>,
                << n_read, n_read >> }

InitMain0 ==
    /\ errors = << >>
    /\ warnings = << >>
    /\ exit_status = -1
    /\ project = None
    /\ source_files = << >>

InitFF0 ==
    /\ pycparser_installed = TRUE
    /\ ff_pc = "idle"
    /\ c_files = << >>
    /\ allowed_functions = << >>
    /\ ff_i = 0
    /\ disk = EmptyUnit
    /\ pp_mode = "none"
    /\ source = EmptyUnit
    /\ ast = FileAST(<< >>)
    /\ called_functions = { }
    /\ ff_errors = << >>
    /\ fs = [p \in { CPath(i) : i \in DOMAIN Stems } |-> Free]
    /\ calls = 0
    /\ first_errors = << >>

InitRP0 ==
    /\ rp_pc = "idle"
    /\ raw_name = << >>
    /\ normalized = << >>
    /\ resolved = None
    /\ renormalized = << >>

InitCR0 ==
    /\ make_installed = TRUE
    /\ artifact = Absent
    /\ proc = 0
    /\ build_failed = FALSE
    /\ cr_pc = "idle"
    /\ make_target = None
    /\ result = NoResult
    /\ first_rc = 0
    /\ mtime_before = -1
    /\ mtime_after = -1
    /\ cr_ret = << >>
    /\ events = << >>

\* python3 check_42.py <argv>
\* The command lines main is run with, and the registry it is run on: any
\* of the command lines on PROJECTS as it is, and --validate-projects and a
\* check of cpp00 on the registries with a flaw.
MainInputs ==
    (({ << >>, << s_folder >>, << s_list_projects >>, << s_validate_projects >> }
        \cup { << s_folder, n >> : n \in RawNames }) \X { PROJECTS })
    \cup ({ << s_validate_projects >>, << s_folder, k_cpp00 >> } \X InvalidRegistries)

InitMain ==
    /\ entry = "main"
    /\ \E input \in MainInputs :
         /\ argv = input[1]
         /\ registry = input[2]
    /\ folder_isdir \in BOOLEAN
    /\ now \in 1..MaxStart
    /\ pc = "l632"
    /\ InitMain0 /\ InitFF0 /\ InitCR0 /\ InitRP0

\* check_forbidden_functions(c_files, allowed_functions)
InitForbidden ==
    /\ entry = "check_forbidden_functions"
    /\ argv = << >>
    /\ registry = PROJECTS
    /\ folder_isdir = TRUE
    /\ now = 1
    /\ pc = "idle"
    /\ InitMain0 /\ InitFF0 /\ InitCR0 /\ InitRP0

\* check_relink(make_target, make_dir)
InitRelink ==
    /\ entry = "check_relink"
    /\ argv = << >>
    /\ registry = PROJECTS
    /\ folder_isdir = TRUE
    /\ now \in 1..MaxStart
    /\ pc = "idle"
    /\ InitMain0 /\ InitFF0 /\ InitCR0 /\ InitRP0

\* check_forbidden_functions(c_files, allowed_functions), and once more
InitForbiddenTwice ==
    /\ entry = "check_forbidden_functions twice"
    /\ argv = << >>
    /\ registry = PROJECTS
    /\ folder_isdir = TRUE
    /\ now = 1
    /\ pc = "idle"
    /\ InitMain0 /\ InitFF0 /\ InitCR0 /\ InitRP0

\* resolve_project_name(raw_name)
InitResolve ==
    /\ entry = "resolve_project_name"
    /\ argv = << >>
    /\ registry = PROJECTS
    /\ folder_isdir = TRUE
    /\ now = 1
    /\ pc = "idle"
    /\ InitMain0 /\ InitFF0 /\ InitCR0
    /\ rp_pc = "l281"
    /\ raw_name \in RawInputs
    /\ normalized = << >>
    /\ resolved = None
    /\ renormalized = << >>

Init ==
    /\ stdout = << >>
    /\ (InitMain \/ InitForbidden \/ InitForbiddenTwice \/ InitRelink \/ InitResolve)

\* The direct call of check_forbidden_functions
CallForbidden ==
    /\ entry = "check_forbidden_functions"
    /\ ff_pc = "idle"
    /\ \E files \in CFileLists, allowed \in AllowLists :
         /\ c_files' = files
         /\ allowed_functions' = allowed
    /\ ff_pc' = "l347"
    /\ calls' = calls + 1
    /\ UNCHANGED << pycparser_installed, ff_i, disk, pp_mode, source, ast, called_functions, ff_errors,
                    fs, first_errors >>
    /\ UNCHANGED << mainVars, crVars, envVars, rpVars, stdout >>

\* The file lists and allow-lists of a call that is made twice.
TwiceFileLists == { << >>, << CPath(1) >>, << CPath(1), CPath(2) >>, << CPath(2), CPath(1) >> }
TwiceAllowLists == { << >>, << n_read >> }

\* check_forbidden_functions(c_files, allowed_functions), first of two calls
\* on files whose environment stays as it is
CallForbiddenFirst ==
    /\ entry = "check_forbidden_functions twice"
    /\ ff_pc = "idle"
    /\ \E files \in TwiceFileLists, allowed \in TwiceAllowLists :
         /\ c_files' = files
         /\ allowed_functions' = allowed
         /\ \E fixed \in [SetOf(files) -> FixedEnvironments] :
              fs' = [p \in DOMAIN fs |-> IF p \in SetOf(files) THEN fixed[p] ELSE fs[p]]
    /\ ff_pc' = "l347"
    /\ calls' = calls + 1
    /\ UNCHANGED << pycparser_installed, ff_i, disk, pp_mode, source, ast, called_functions, ff_errors,
                    first_errors >>
    /\ UNCHANGED << mainVars, crVars, envVars, rpVars, stdout >>

\* The same call again, once the first has returned; the locals of the new
\* call are what lines 353-355 make them
CallForbiddenAgain ==
    /\ entry = "check_forbidden_functions twice"
    /\ ff_pc = "returned"
    /\ calls = 1
    /\ first_errors' = ff_errors
    /\ ff_pc' = "l347"
    /\ calls' = calls + 1
    /\ UNCHANGED << pycparser_installed, c_files, allowed_functions, ff_i, disk, pp_mode,
                    source, ast, called_functions, ff_errors, fs >>
    /\ UNCHANGED << mainVars, crVars, envVars, rpVars, stdout >>

\* The direct call of check_relink
CallRelink ==
    /\ entry = "check_relink"
    /\ cr_pc = "idle"
    /\ \E target \in MakeTargets : make_target' = target
    /\ \E installed \in BOOLEAN : make_installed' = installed
    /\ \E a \in {Absent} \cup { Present(t) : t \in 0..now } : artifact' = a
    /\ cr_pc' = "l418"
    /\ UNCHANGED << now, proc, result, first_rc, mtime_before, mtime_after, cr_ret,
                    events, build_failed >>
    /\ UNCHANGED << mainVars, ffVars, envVars, rpVars, stdout >>

Next ==
    \/ Main
    \/ CallForbidden
    \/ CallForbiddenFirst
    \/ CallForbiddenAgain
    \/ CallRelink
    \/ CheckForbiddenFunctions
    \/ CheckRelink
    \/ ResolveProjectNameCall

Spec == Init /\ [][Next]_vars

\* What the interpreter does by itself: every step but the exit of a child
\* process, which is the child's to take. The expiry of the timeout of line
\* 330 is the interpreter's step; the make calls of line 426 and 433 pass no
\* timeout, so nothing but the child ends their wait.
ChildExit == FF_GccExit \/ CR_InitialMakeExit \/ CR_RebuildExit

Interpreter ==
    \/ Main
    \/ CallForbidden
    \/ CallForbiddenFirst
    \/ CallForbiddenAgain
    \/ CallRelink
    \/ FF_Import \/ FF_Setup \/ FF_For \/ FF_Preprocess \/ FF_GccTimeout
    \/ FF_Parse \/ FF_Evaluate
    \/ CR_CheckTarget \/ CR_CheckExists0 \/ CR_InitialMake \/ CR_CheckExists1
    \/ CR_SampleBefore \/ CR_Sleep \/ CR_Rebuild \/ CR_CheckReturncode
    \/ CR_CheckExists2 \/ CR_SampleAfter \/ CR_Compare
    \/ ResolveProjectNameCall

\* The interpreter keeps running; a child process may never exit.
FairSpec == Spec /\ WF_vars(Interpreter)

-----------------------------------------------------------------------------
(* Properties.                                                             *)

\* check_relink did e
Did(e) == \E i \in DOMAIN events : events[i].ev = e

\* The clock reading at which check_relink first did e
At(e) == events[CHOOSE i \in DOMAIN events :
                  /\ events[i].ev = e
                  /\ \A j \in 1..(i - 1) : events[j].ev # e].at

\* What check_relink did, the looks at the filesystem left out
Steps ==
    LET IsStep(e) == e \notin {"present", "absent"}
    IN  SelectSeq([i \in DOMAIN events |-> events[i].ev], IsStep)

\* check_relink found no artifact when it started
AbsentAtStart == events # << >> /\ events[1].ev = "absent"

RECURSIVE Subnodes(_)
Subnodes(node) ==
    {node} \cup UNION { Subnodes(node.children[i]) : i \in DOMAIN node.children }

\* The names in callee position of a call expression of the statements
CalledNames(stmts) ==
    { x.children[1].name :
        x \in { y \in Subnodes(FileAST(stmts)) :
                  y.kind = "FuncCall" /\ y.children[1].kind = "ID" } }

\* The names inside the string literals of the statements
LiteralNames(stmts) ==
    { x.name : x \in { y \in Subnodes(FileAST(stmts)) : y.kind = "Constant" } }

\* The violations of ff_errors that carry the path p
ErrorsOf(p) ==
    LET IsMine(e) == e.file = p IN SelectSeq(ff_errors, IsMine)

\* The loop of check_forbidden_functions is through with the file at ff_i
FileDone == ff_pc = "l357" /\ ff_i >= 1

\* msg is out without its leading and trailing white space
Carries(msg, out) ==
    /\ msg # << >> => ~IsSpace(msg[1]) /\ ~IsSpace(msg[Len(msg)])
    /\ \E i \in 0..Len(out) :
         /\ i + Len(msg) <= Len(out)
         /\ SubSeq(out, i + 1, i + Len(msg)) = msg
         /\ \A k \in (1..i) \cup ((i + Len(msg) + 1)..Len(out)) : IsSpace(out[k])

\* C1: when the rebuild exited 0 and the artifact exists after it, check_relink
\* returns no violation if the artifact's timestamp equals the one sampled
\* before the rebuild, and exactly the "Relink detected" violation otherwise.
C1_TimestampVerdict ==
    (/\ cr_pc = "returned"
     /\ make_target \notin {None, << >>}
     /\ Did("exit2")
     /\ result.returncode = 0
     /\ artifact.exists)
    => IF artifact.mtime = mtime_before
         THEN cr_ret = << >>
         ELSE cr_ret = << Violation("Relink detected", make_target, NoPath) >>

C1_Witness ==
    /\ cr_pc = "returned"
    /\ Did("exit2")
    /\ result.returncode = 0
    /\ artifact.exists
    /\ artifact.mtime # mtime_before
    /\ cr_ret = << Violation("Relink detected", s_push_swap, NoPath) >>

\* C2: once a file is parsed and evaluated, the violations that carry its path
\* are exactly one for each name the file calls directly and the allow-list
\* does not hold, none for any other name, in lexicographic order of the
\* name, and they are the last ones appended.
C2_OneViolationPerForbiddenName ==
    (FileDone /\ ast.kind = "FileAST") =>
      LET mine == ErrorsOf(c_files[ff_i])
          forbidden == CalledNames(disk.stmts) \ SetOf(allowed_functions)
      IN  /\ \A n \in Names \cup SetOf(allowed_functions) :
                Cardinality({ i \in DOMAIN mine : mine[i].arg = n })
                  = IF n \in forbidden THEN 1 ELSE 0
          /\ \A i \in DOMAIN mine :
                mine[i].kind = "Forbidden function" /\ mine[i].arg \in forbidden
          /\ \A i, j \in DOMAIN mine : i < j => LexLess(mine[i].arg, mine[j].arg)
          /\ Len(mine) <= Len(ff_errors)
          /\ SubSeq(ff_errors, Len(ff_errors) - Len(mine) + 1, Len(ff_errors)) = mine

C2_Witness ==
    /\ FileDone
    /\ ff_i = 2
    /\ ast.kind = "FileAST"
    /\ disk.stmts = << FuncCall(ID(n_readline), << >>), FuncCall(ID(n_read), << >>) >>
    /\ allowed_functions = << >>
    /\ ErrorsOf(c_files[2]) =
         << Violation("Forbidden function", n_read, c_files[2]),
            Violation("Forbidden function", n_readline, c_files[2]) >>

\* C3: a name that a file holds only inside a string literal or a comment,
\* never as the callee of a call, gets no violation for that file, whether
\* the text came from gcc -E or from the raw fallback.
C3_NoViolationForLiteralOrComment ==
    FileDone =>
      \A n \in Names :
        (/\ n \in LiteralNames(disk.stmts) \cup {disk.comment}
         /\ n \notin CalledNames(disk.stmts))
        => \A i \in DOMAIN ff_errors :
              ~(ff_errors[i].file = c_files[ff_i] /\ ff_errors[i].arg = n)

C3_Witness ==
    /\ FileDone
    /\ pp_mode = "raw"
    /\ ast.kind = "FileAST"
    /\ disk.comment = n_readline
    /\ disk.stmts = << FuncCall(ID(n_read), << Constant(n_readline) >>) >>
    /\ allowed_functions = << >>
    /\ ff_errors = << Violation("Forbidden function", n_read, c_files[ff_i]) >>

\* C4: when the artifact is absent at the start, one build invocation is
\* triggered, and if the artifact is still absent after it the check returns
\* exactly the build-failure violation, with no timestamp sampled, no settle
\* wait and no second invocation.
C4_AbsentThenBuildFailure ==
    (/\ AbsentAtStart
     /\ cr_pc \in {"returned", "raised"}
     /\ ~Did("T0")
     /\ ~artifact.exists)
    => /\ cr_pc = "returned"
       /\ cr_ret = << Violation("make did not produce", make_target, NoPath) >>
       /\ Steps = << "make1", "exit1" >>

\* C5: when the rebuild exits with a non-zero code, check_relink returns
\* exactly one violation, "make failed:" with make's error output (less the
\* white space around it), whatever became of the artifact.
C5_RebuildFailureReported ==
    (cr_pc = "returned" /\ Did("exit2") /\ result.returncode # 0)
    => /\ Len(cr_ret) = 1
       /\ cr_ret[1].kind = "make failed:"
       /\ Carries(cr_ret[1].arg, result.stderr)

C5_Witness ==
    /\ cr_pc = "returned"
    /\ Did("exit2")
    /\ result = [returncode |-> 2, stderr |-> << 32, 69, 10 >>]
    /\ artifact.exists
    /\ artifact.mtime # mtime_before
    /\ cr_ret = << Violation("make failed:", << 69 >>, NoPath) >>

\* C6: when the rebuild exits 0 and the artifact no longer exists, check_relink
\* returns exactly the "disappeared" violation and samples no second
\* timestamp.
C6_DisappearedReported ==
    (cr_pc = "returned" /\ Did("exit2") /\ result.returncode = 0 /\ ~artifact.exists)
    => /\ cr_ret = << Violation("disappeared after rebuild", make_target, NoPath) >>
       /\ ~Did("T1")
       /\ mtime_after = -1

C6_Witness ==
    /\ cr_pc = "returned"
    /\ Did("exit2")
    /\ result.returncode = 0
    /\ ~artifact.exists
    /\ mtime_before >= 0
    /\ Len(cr_ret) = 1

\* C7: with make_target None or empty, check_relink returns no violation at
\* once: no make is spawned, the filesystem is not looked at, nothing is
\* printed and no time is waited.
C7_NoTargetNoWork ==
    (cr_pc # "idle" /\ make_target \in {None, << >>})
    => /\ cr_pc \in {"l418", "returned"}
       /\ events = << >>
       /\ proc = 0
       /\ cr_pc = "returned" => cr_ret = << >>
       /\ \A i \in DOMAIN stdout : stdout[i].kind # "[INFO] not found"

C7_Witness ==
    /\ cr_pc = "returned"
    /\ make_target = << >>
    /\ cr_ret = << >>

\* C8: a run of check_relink that samples T1 has done, in this order, the
\* initial build (exactly when the artifact was absent), the T0 sample, the
\* settle wait, the rebuild and the T1 sample; the rebuild starts at a later
\* clock reading than the T0 sample; and at no time do two makes run.
C8_ProtocolOrder ==
    /\ proc \in {0, 1}
    /\ Did("T1") =>
         /\ Steps = (IF AbsentAtStart THEN << "make1", "exit1" >> ELSE << >>)
                    \o << "T0", "sleep", "make2", "exit2", "T1" >>
         /\ At("make2") > At("T0")

C8_Witness ==
    /\ cr_pc = "returned"
    /\ AbsentAtStart
    /\ Did("T1")
    /\ mtime_after # mtime_before

\* C9: whenever a make that check_relink ran exited with a non-zero code,
\* check_relink returns a non-empty list and main ends with exit status 1.
C9_BuildFailureIsHard ==
    /\ (cr_pc = "returned" /\ build_failed) => cr_ret # << >>
    /\ (pc = "exited" /\ build_failed) => exit_status = 1

\* C10: no failure to run a subprocess leaves check_relink as a raw error.
C10_SubprocessFailuresWrapped == cr_pc # "raised"

\* The interpreter is blocked in subprocess.run on the gcc child / on a make
\* child.
WaitingForGcc == ff_pc = "l326w"
WaitingForMake == cr_pc \in {"l426w", "l433w"}

\* C11: a caller blocked on the preprocessor or on the build tool always gets
\* to proceed, even if the child never exits.
C11_CallerAlwaysProceeds ==
    /\ WaitingForGcc ~> ~WaitingForGcc
    /\ WaitingForMake ~> ~WaitingForMake

\* C12: whatever becomes of gcc, _preprocess hands the file's raw text on when
\* gcc's output is not used, and normalizing a file never ends
\* check_forbidden_functions with an exception.
C12_NormalizationNeverFails ==
    /\ (ff_pc = "l360" /\ pp_mode = "raw") => source = disk
    /\ ff_pc # "raised"

\* The diagnostic of line 362 for the file p
CouldNotParse(p) == Violation("[WARNING] Could not parse", << >>, p)

NotInstalled == Violation("[WARNING] pycparser not installed", << >>, NoPath)

Printed(line) == \E i \in DOMAIN stdout : stdout[i] = line

\* C14: when pycparser cannot be imported, check_forbidden_functions returns
\* no violation whatever the files and the allow-list, having taken no file,
\* run no gcc and parsed nothing, and the advisory is printed; a run of main
\* then collects no forbidden-call violation and its output holds the
\* advisory.
C14_SkippedWithAdvisory ==
    /\ (ff_pc = "returned" /\ ~pycparser_installed) =>
          /\ ff_errors = << >>
          /\ ff_i = 0
          /\ pp_mode = "none"
          /\ stdout # << >> /\ stdout[Len(stdout)] = NotInstalled
    /\ (pc \in {"l677", "l677w", "l680", "l683", "exited", "traceback"}
          /\ ~pycparser_installed) =>
          /\ Printed(NotInstalled)
          /\ \A i \in DOMAIN errors : errors[i].kind # "Forbidden function"

C14_Witness ==
    /\ ff_pc = "returned"
    /\ ~pycparser_installed
    /\ Len(c_files) = 2
    /\ allowed_functions = << >>
    /\ ff_errors = << >>
    /\ stdout = << NotInstalled >>

\* C15: the second of two calls of check_forbidden_functions on the same
\* file list and allow-list, the files, gcc and the parser being as they
\* were, ends as the first did and returns the same list, element for
\* element.
C15_Idempotent ==
    calls = 2 =>
      /\ ff_pc # "raised"
      /\ ff_pc = "returned" => ff_errors = first_errors

C15_Witness ==
    /\ calls = 2
    /\ ff_pc = "returned"
    /\ c_files = << CPath(2), CPath(1) >>
    /\ pp_mode = "raw"
    /\ first_errors =
         << Violation("Forbidden function", n_read, CPath(2)),
            Violation("Forbidden function", n_readline, CPath(2)),
            Violation("Forbidden function", n_read, CPath(1)) >>
    /\ ff_errors = first_errors

\* b is the block of the file p that holds stmts: one violation for each name
\* stmts calls and the allow-list lacks, in rising order, each naming p
IsBlock(b, stmts, allowed, p) ==
    /\ Len(b) = Cardinality(CalledNames(stmts) \ SetOf(allowed))
    /\ \A i \in DOMAIN b :
          /\ b[i].kind = "Forbidden function"
          /\ b[i].arg \in CalledNames(stmts) \ SetOf(allowed)
          /\ b[i].file = p
    /\ \A i, j \in DOMAIN b : i < j => LexLess(b[i].arg, b[j].arg)

\* What the fixed file p holds for the evaluator: nothing if it does not parse
StmtsOf(p) == IF fs[p].tree = ParseError THEN << >> ELSE fs[p].content.stmts

\* errs is the blocks of the files, one after the other in the files' order
RECURSIVE IsConcatenation(_, _, _)
IsConcatenation(errs, files, allowed) ==
    IF files = << >> THEN errs = << >>
    ELSE LET n == Cardinality(CalledNames(StmtsOf(Head(files))) \ SetOf(allowed))
         IN  /\ n <= Len(errs)
             /\ IsBlock(SubSeq(errs, 1, n), StmtsOf(Head(files)), allowed, Head(files))
             /\ IsConcatenation(SubSeq(errs, n + 1, Len(errs)), Tail(files), allowed)

InLoop == ff_pc \in {"l357", "l358", "l326w", "l360", "l365"}

\* C16: evaluating a file appends to errors the block of that file, which
\* is made of what the file holds, the allow-list and the file's path and of
\* nothing else; while the loop runs, errors only grows at its end; and for
\* files held fixed what is returned is the files' blocks in the order of the
\* file list, so that the other order of the same files gives the same blocks
\* the other way round.
C16_FileLocalConcatenation ==
    /\ []((ff_pc = "returned" /\ pycparser_installed
               /\ \A i \in DOMAIN c_files : IsFixed(c_files[i]))
            => IsConcatenation(ff_errors, c_files, allowed_functions))
    /\ [][ /\ (ff_pc = "l365" /\ ff_pc' = "l357") =>
                 /\ Len(ff_errors') >= Len(ff_errors)
                 /\ SubSeq(ff_errors', 1, Len(ff_errors)) = ff_errors
                 /\ IsBlock(SubSeq(ff_errors', Len(ff_errors) + 1, Len(ff_errors')),
                            disk.stmts, allowed_functions, c_files[ff_i])
           /\ (InLoop /\ ff_pc # "l365" /\ (InLoop' \/ ff_pc' = "returned")) =>
                 ff_errors' = ff_errors
         ]_vars

C16_Witness ==
    /\ calls = 1
    /\ ff_pc = "returned"
    /\ c_files = << CPath(2), CPath(1) >>
    /\ IsFixed(CPath(1)) /\ IsFixed(CPath(2))
    /\ allowed_functions = << n_read >>
    /\ fs[CPath(1)].tree = ParseError
    /\ ff_errors = << Violation("Forbidden function", n_readline, CPath(2)) >>

\* main got past the checks of its arguments and has ended
EndedAfterDetectors == pc \in {"exited", "traceback"} /\ project # None

\* The last n lines printed
LastPrinted(n) == SubSeq(stdout, Len(stdout) - n + 1, Len(stdout))

\* C17: a run of main that reached the detectors ends with a non-zero exit
\* status exactly when errors is not empty, whatever warnings holds, and
\* the violations are the last lines printed, in the order they were
\* collected.
C17_ExitStatusIffHardViolation ==
    EndedAfterDetectors =>
      /\ exit_status # 0 <=> errors # << >>
      /\ errors # << >> =>
            /\ Len(stdout) >= Len(errors)
            /\ LastPrinted(Len(errors)) = errors

\* A detector of main has run or is running
DetectorRan ==
    \/ pc \in {"l672", "l675", "l676", "l676w", "l677", "l677w", "l680", "l683", "traceback"}
    \/ calls > 0
    \/ cr_pc # "idle"
    \/ errors # << >>

\* C18: in a run of main on a registry that cmd_validate_projects finds a
\* flaw in, no detector ever runs, and the run ends with exit status 1 and
\* the validation failure printed.
C18_RegistryValidatedAtStartup ==
    (entry = "main" /\ ValidationErrors(registry) # << >>) =>
      /\ ~DetectorRan
      /\ pc = "exited" =>
            /\ exit_status = 1
            /\ Printed(Violation("[FAIL] PROJECTS validation failed:", << >>, NoPath))

\* The arguments of the command line that are not self-check flags
IsPositional(a) == a \notin { s_list_projects, s_validate_projects }
Positional == SelectSeq(argv, IsPositional)

\* The command line is one main turns down: too few arguments, a folder that
\* is no directory, or a project name that no key of the registry normalizes
\* as
BadArguments ==
    \/ Len(Positional) < 2
    \/ ~folder_isdir
    \/ \A k \in DOMAIN registry :
          NormalizeProjectName(k) # NormalizeProjectName(Positional[2])

\* main is still at its argument checks or has ended there with status 1,
\* no detector, make or gcc having run, and with the usage line printed when
\* the arguments were too few
TurnedDown ==
    /\ pc \in {"l632", "l639", "exited"}
    /\ calls = 0 /\ ff_pc = "idle"
    /\ cr_pc = "idle" /\ proc = 0 /\ events = << >>
    /\ errors = << >> /\ source_files = << >>
    /\ pc = "exited" =>
          /\ exit_status = 1
          /\ Len(Positional) < 2 => Printed(Violation("Usage:", << >>, NoPath))

\* C19 as stated: main turns down every command line with fewer than two
\* positional arguments, a folder that is no directory or an unknown project.
C19_BadArgumentsExitNonZero ==
    (entry = "main" /\ BadArguments) => TurnedDown

\* C19, amended: main turns down every such command line that holds no
\* self-check flag (--list-projects, --validate-projects).
C19_BadArgumentsExitNonZeroUnlessSelfCheck ==
    (entry = "main" /\ Positional = argv /\ BadArguments) => TurnedDown

C19_Witness ==
    /\ pc = "exited"
    /\ argv = << s_folder, << 120 >> >>
    /\ folder_isdir
    /\ exit_status = 1
    /\ stdout = << Violation("[ERROR] Unknown project", << 120 >>, NoPath) >>

\* A character in lower case with hyphen and space turned into underscore
Folded(c) ==
    IF c \in {45, 32} THEN 95
    ELSE IF c \in 65..90 THEN c + 32
    ELSE c

\* n is raw trimmed of the white space around it, then folded character by
\* character
NormalizesTo(raw, n) ==
    \E i \in 0..Len(raw) :
      /\ i + Len(n) <= Len(raw)
      /\ \A k \in (1..i) \cup ((i + Len(n) + 1)..Len(raw)) : IsSpace(raw[k])
      /\ n # << >> => ~IsSpace(raw[i + 1]) /\ ~IsSpace(raw[i + Len(n)])
      /\ \A k \in 1..Len(n) : n[k] = Folded(raw[i + k])

Visited == FileDone /\ ast.kind = "FileAST"

\* The call expressions of a tree, at any depth
CallNodes(tree) == { y \in Subnodes(tree) : y.kind = "FuncCall" }

\* The identifiers that occur in an expression
IdNames(expr) == { y.name : y \in { z \in Subnodes(expr) : z.kind = "ID" } }

\* C21: the names the visitor has collected from a tree are exactly the
\* identifiers in callee position of the call expressions of the tree, at
\* any depth; a call whose callee is not a plain identifier adds no name of
\* its callee expression, unless that name is the plain callee of a call.
C21_ExtractorIsDirectCallees ==
    Visited =>
      /\ called_functions = CalledNames(ast.children)
      /\ \A c \in CallNodes(ast) :
            c.children[1].kind # "ID" =>
              \A n \in IdNames(c.children[1]) \ CalledNames(ast.children) :
                 n \notin called_functions

C21_Witness ==
    /\ Visited
    /\ ast = FileAST(<< FuncCall(FuncCall(ID(n_read), << >>), << >>) >>)
    /\ called_functions = { n_read }
    /\ ff_errors # << >>

\* The make children check_relink has spawned so far
MakeCalls ==
    Cardinality({ i \in DOMAIN events : events[i].ev \in {"make1", "make2"} })

\* check_relink found the artifact when it started
PresentAtStart == events # << >> /\ events[1].ev = "present"

\* Every make child that is spawned exits, and none fails to be spawned
EveryBuildReturns ==
    /\ WaitingForMake ~> ~WaitingForMake
    /\ [](cr_pc # "raised")

\* What check_relink has returned and how many make children it took
ReturnedWithinBounds ==
    cr_pc = "returned" =>
      /\ Len(cr_ret) <= 1
      /\ MakeCalls <= 2
      /\ PresentAtStart => MakeCalls = 1
      /\ cr_ret = << >> =>
            \/ Falsy(make_target)
            \/ /\ Did("exit2") /\ result.returncode = 0
               /\ artifact.exists
               /\ Did("T1") /\ mtime_after = mtime_before

\* C22: a call of check_relink whose make children all exit returns; what
\* it returns is a list of at most one violation, after at most two make
\* children, exactly one if it found the artifact when it started; and the
\* list is empty only if make_target is empty, or the rebuild exited 0, the
\* artifact exists and the two timestamps sampled are equal.
C22_ReturnsWithinBounds ==
    /\ []ReturnedWithinBounds
    /\ EveryBuildReturns => ((cr_pc = "l418") ~> (cr_pc = "returned"))

C22_Witness ==
    /\ cr_pc = "returned"
    /\ AbsentAtStart
    /\ MakeCalls = 2
    /\ result.returncode = 0
    /\ mtime_after = mtime_before
    /\ cr_ret = << >>

====
